---- MODULE Spec2Model ----
(***************************************************************************)
(* pdfh (src/src/utils.rs): page-tree manipulation of PDF documents.       *)
(*                                                                         *)
(* A document is an object table (ObjectId -> dictionary) plus a trailer   *)
(* Root reference.  One behaviour of the model is one invocation of the    *)
(* tool on the files of a directory: the command loads its input(s),       *)
(* mutates the in-memory document, finalizes it and saves it (save_pdf),   *)
(* or panics before anything is written.  A path holds a document, no file *)
(* or a file with a bad header; a panic records its step and its cause.    *)
(*                                                                         *)
(* The operators named Document_* model the lopdf primitives the handlers  *)
(* call (get_pages, delete_pages, delete_object, traverse_objects,         *)
(* prune_objects, renumber_objects_with); everything else is translated    *)
(* from utils.rs.  Content streams, bookmarks and outlines are not part of *)
(* the modelled documents, so compress, adjust_zero_pages, build_outline   *)
(* and delete_zero_length_streams leave them as they are.                  *)
(***************************************************************************)
EXTENDS Integers, Sequences, FiniteSets, TLC

VARIABLES
    disk,   \* the files: path -> document, or NoFile
    run     \* the invocation: its arguments, the document in memory, its outcome

vars == <<disk, run>>

----------------------------------------------------------------------------
(* Bounds of the inputs *)

MaxPageNum == 4     \* explicit page lists hold numbers 1..MaxPageNum
MaxListLen == 2     \* length of an explicit page list
MaxEvery   == 3     \* --every ranges over 1..MaxEvery
MaxDupe    == 2     \* --num ranges over 0..MaxDupe
MaxMerge   == 2     \* number of input files of a merge

Degrees == {90, 180}

----------------------------------------------------------------------------
(* Generic helpers *)

Range(s) == {s[i] : i \in DOMAIN s}

TheOne(S) == CHOOSE x \in S : TRUE

RECURSIVE SortedSeq(_)
SortedSeq(S) ==
    IF S = {} THEN <<>>
    ELSE LET m == CHOOSE x \in S : \A y \in S : x <= y
         IN  <<m>> \o SortedSeq(S \ {m})

RECURSIVE RemoveFirst(_, _)
RemoveFirst(s, x) ==
    IF s = <<>> THEN <<>>
    ELSE IF Head(s) = x THEN Tail(s)
    ELSE <<Head(s)>> \o RemoveFirst(Tail(s), x)

ReverseSeq(s) == [i \in 1..Len(s) |-> s[Len(s) + 1 - i]]

Rotations(s) ==
    {[i \in 1..Len(s) |-> s[((i + k - 1) % Len(s)) + 1]] : k \in 0..(Len(s) - 1)}

SeqsUpTo(S, n) == UNION {[1..k -> S] : k \in 0..n}

----------------------------------------------------------------------------
(* Objects and documents.  An optional dictionary entry is a set: {} when  *)
(* the key is absent, {v} when it is present with value v.  kidsobj is the  *)
(* kind of object under the key Kids: "Array" (kids holds its references),  *)
(* "absent" (no such key) or "Null" (an object that is not an array); kids  *)
(* is empty unless kidsobj is "Array".                                      *)

Catalog(pagesRef) ==
    [type |-> "Catalog", kids |-> <<>>, parent |-> {}, count |-> {},
     rotate |-> {}, pages |-> pagesRef, tag |-> 0, kidsobj |-> "absent"]

PagesNode(kids, parent, count) ==
    [type |-> "Pages", kids |-> kids, parent |-> parent, count |-> {count},
     rotate |-> {}, pages |-> {}, tag |-> 0, kidsobj |-> "Array"]

\* tag stands for the page's opaque content (Contents, Resources, MediaBox);
\* on a Catalog it stands for the entries other than Type and Pages
Page(parent, rotate, tag) ==
    [type |-> "Page", kids |-> <<>>, parent |-> {parent}, count |-> {},
     rotate |-> rotate, pages |-> {}, tag |-> tag, kidsobj |-> "absent"]

\* a path without a file
NoFile == [objects |-> <<>>, root |-> {}, max_id |-> -1]

\* a file that does not start with the PDF header
BadHeader == [objects |-> <<>>, root |-> {}, max_id |-> -2]

\* Document::with_version: no objects, an empty trailer
EmptyDocument == [objects |-> <<>>, root |-> {}, max_id |-> 0]

----------------------------------------------------------------------------
(* lopdf primitives *)

\* the references an object holds
Refs(o) == Range(o.kids) \cup o.parent \cup o.pages

RECURSIVE Closure(_, _)
Closure(objects, seen) ==
    LET next == seen \cup UNION {Refs(objects[i]) : i \in seen \cap DOMAIN objects}
    IN  IF next = seen THEN seen ELSE Closure(objects, next)

\* Document::traverse_objects: the ids referenced, transitively, from the trailer
Document_traverse_objects(doc) == Closure(doc.objects, doc.root)

\* Document::prune_objects: drop every object the trailer does not reach
Document_prune_objects(doc) ==
    LET live == Document_traverse_objects(doc)
    IN  [doc EXCEPT !.objects = [i \in DOMAIN doc.objects \cap live |-> doc.objects[i]]]

RECURSIVE KidPages(_, _)
\* PageTreeIter: the leaf pages under a Kids array, left to right, depth first
KidPages(objects, kids) ==
    IF kids = <<>> THEN <<>>
    ELSE LET k == Head(kids)
             here == IF k \notin DOMAIN objects THEN <<>>
                     ELSE IF objects[k].type = "Page" THEN <<k>>
                     ELSE IF objects[k].type = "Pages"
                          THEN KidPages(objects, objects[k].kids)
                     ELSE <<>>
         IN  here \o KidPages(objects, Tail(kids))

\* Document::get_pages: page number (the index) -> object id
Document_get_pages(doc) ==
    IF doc.root = {} \/ TheOne(doc.root) \notin DOMAIN doc.objects THEN <<>>
    ELSE LET cat == doc.objects[TheOne(doc.root)]
         IN  IF cat.pages = {} \/ TheOne(cat.pages) \notin DOMAIN doc.objects THEN <<>>
             ELSE KidPages(doc.objects, doc.objects[TheOne(cat.pages)].kids)

\* Document::delete_object: remove the references to id from every reachable
\* object (the first one of an array, the keys of a dictionary), then the object
Unlink(o, id) ==
    [o EXCEPT !.kids = RemoveFirst(@, id), !.parent = @ \ {id}, !.pages = @ \ {id}]

Document_delete_object(doc, id) ==
    LET live == Document_traverse_objects(doc)
    IN  [doc EXCEPT !.objects =
            [i \in DOMAIN doc.objects \ {id} |->
                IF i \in live THEN Unlink(doc.objects[i], id) ELSE doc.objects[i]]]

RECURSIVE DecCounts(_, _)
\* the loop of Document::delete_pages that walks up the Parent chain
DecCounts(objects, ref) ==
    IF ref = {} \/ TheOne(ref) \notin DOMAIN objects THEN objects
    ELSE LET t == TheOne(ref)
             o == objects[t]
             o2 == IF o.count # {} THEN [o EXCEPT !.count = {TheOne(@) - 1}] ELSE o
         IN  DecCounts([objects EXCEPT ![t] = o2], o.parent)

RECURSIVE DeleteEach(_, _, _)
DeleteEach(doc, pages, page_numbers) ==
    IF page_numbers = <<>> THEN doc
    ELSE LET n == Head(page_numbers)
             found == n \in DOMAIN pages /\ pages[n] \in DOMAIN doc.objects
             d1 == Document_delete_object(doc, pages[n])
             d2 == [d1 EXCEPT !.objects = DecCounts(@, doc.objects[pages[n]].parent)]
         IN  DeleteEach(IF found THEN d2 ELSE doc, pages, Tail(page_numbers))

\* Document::delete_pages: the page numbers are those of the tree before the call
Document_delete_pages(doc, page_numbers) ==
    DeleteEach(doc, Document_get_pages(doc), page_numbers)

\* Document::renumber_objects_with: the objects, in id order, get the ids
\* starting_id, starting_id + 1, ...; references follow; max_id is the last id
Document_renumber_objects_with(doc, starting_id) ==
    LET ids == DOMAIN doc.objects
        new(i) == IF i \in ids
                  THEN starting_id + Cardinality({j \in ids : j < i})
                  ELSE i
        old(n) == CHOOSE i \in ids : new(i) = n
        live == Document_traverse_objects(doc)
        Re(o) == [o EXCEPT !.kids = [j \in DOMAIN @ |-> new(@[j])],
                           !.parent = {new(x) : x \in @},
                           !.pages = {new(x) : x \in @}]
    IN  [objects |-> [n \in {new(i) : i \in ids} |->
                        IF old(n) \in live THEN Re(doc.objects[old(n)])
                        ELSE doc.objects[old(n)]],
         root |-> {new(x) : x \in doc.root},
         max_id |-> starting_id + Cardinality(ids) - 1]

----------------------------------------------------------------------------
(* utils.rs: page selection *)

\* the orders in which a HashSet<u32> may hand out its elements: the hasher
\* is randomly keyed, so the order is drawn from a family of orders
HashSetOrders(S) ==
    IF S = {} THEN {<<>>}
    ELSE Rotations(SortedSeq(S)) \cup Rotations(ReverseSeq(SortedSeq(S)))

\* mutant: the range 1..len instead of 1..=len
make_pages_page_numbers_exclusive(pages, doc, negate) ==
    IF negate
    THEN LET pages_set == (1..(Len(Document_get_pages(doc)) - 1)) \ Range(pages)
         IN  HashSetOrders(pages_set)
    ELSE {pages}

\* make_pages_page_numbers: the Vecs it may return
make_pages_page_numbers(pages, doc, negate) ==
    IF negate
    THEN LET pages_set == (1..Len(Document_get_pages(doc))) \ Range(pages)
         IN  HashSetOrders(pages_set)
    ELSE {pages}

\* mutant: the two tests of the remainder swapped
make_every_page_numbers_swapped(every, doc, negate) ==
    LET nums == [i \in 1..Len(Document_get_pages(doc)) |-> i]
        keep(page_num) == IF negate THEN page_num % every = 0 ELSE page_num % every # 0
    IN  SelectSeq(nums, keep)

make_every_page_numbers(every, doc, negate) ==
    LET nums == [i \in 1..Len(Document_get_pages(doc)) |-> i]
        keep(page_num) == IF negate THEN page_num % every # 0 ELSE page_num % every = 0
    IN  SelectSeq(nums, keep)

\* page_num % every in the loops of make_every_page_numbers: with every = 0
\* the first page of the document makes the remainder panic
RemainderPanics(every, doc) == every = 0 /\ Len(Document_get_pages(doc)) > 0

\* the causes a panic reports
NoSuchFile == "No such file or directory (os error 2)"
InvalidHeader == "Invalid file header"
NoPagesLeft == "Resulting document would have no pages."
EveryNotValid == "--every is not a valid integer"
RemainderByZero == "attempt to calculate the remainder with a divisor of zero"
UnwrapOnErr == "called Result::unwrap() on an Err value"

\* a panic: the step that raised it and its cause
Failure(at, cause) == {[at |-> at, cause |-> cause]}

\* delete_pages and extract_pages: the set of outcomes (one per HashSet order);
\* an outcome is the Vec handed to lopdf and the document after the call, or a
\* panic when neither --pages nor --every is given
Outcome(page_numbers, doc) ==
    [panicked |-> FALSE, page_numbers |-> page_numbers, doc |-> doc, error |-> {}]

PanickedWith(doc, at, cause) ==
    [panicked |-> TRUE, page_numbers |-> <<>>, doc |-> doc, error |-> Failure(at, cause)]

Panicked(doc) == PanickedWith(doc, "select", EveryNotValid)

\* mutant: negate taken the wrong way round
delete_pages_inverted(doc, pages, every, negate) ==
    IF pages # {}
    THEN {Outcome(pn, Document_delete_pages(doc, pn)) :
            pn \in make_pages_page_numbers(TheOne(pages), doc, ~negate)}
    ELSE IF every # {}
    THEN IF RemainderPanics(TheOne(every), doc)
         THEN {PanickedWith(doc, "select", RemainderByZero)}
         ELSE LET pn == make_every_page_numbers(TheOne(every), doc, ~negate)
              IN  {Outcome(pn, Document_delete_pages(doc, pn))}
    ELSE {Panicked(doc)}

delete_pages(doc, pages, every, negate) ==
    IF pages # {}
    THEN {Outcome(pn, Document_delete_pages(doc, pn)) :
            pn \in make_pages_page_numbers(TheOne(pages), doc, negate)}
    ELSE IF every # {}
    THEN IF RemainderPanics(TheOne(every), doc)
         THEN {PanickedWith(doc, "select", RemainderByZero)}
         ELSE LET pn == make_every_page_numbers(TheOne(every), doc, negate)
              IN  {Outcome(pn, Document_delete_pages(doc, pn))}
    ELSE {Panicked(doc)}

\* mutant: the selection is not negated, so the listed pages are deleted
extract_pages_plain(doc, pages, every) ==
    IF pages # {}
    THEN {Outcome(pn, Document_delete_pages(doc, pn)) :
            pn \in make_pages_page_numbers(TheOne(pages), doc, FALSE)}
    ELSE IF every # {}
    THEN IF RemainderPanics(TheOne(every), doc)
         THEN {PanickedWith(doc, "select", RemainderByZero)}
         ELSE LET pn == make_every_page_numbers(TheOne(every), doc, FALSE)
              IN  {Outcome(pn, Document_delete_pages(doc, pn))}
    ELSE {Panicked(doc)}

extract_pages(doc, pages, every) ==
    IF pages # {}
    THEN {Outcome(pn, Document_delete_pages(doc, pn)) :
            pn \in make_pages_page_numbers(TheOne(pages), doc, TRUE)}
    ELSE IF every # {}
    THEN IF RemainderPanics(TheOne(every), doc)
         THEN {PanickedWith(doc, "select", RemainderByZero)}
         ELSE LET pn == make_every_page_numbers(TheOne(every), doc, TRUE)
              IN  {Outcome(pn, Document_delete_pages(doc, pn))}
    ELSE {Panicked(doc)}

----------------------------------------------------------------------------
(* utils.rs: rotate *)

RECURSIVE rotate_select_pages_cumulative(_, _, _)
\* mutant: the degrees are added to the page's Rotate
rotate_select_pages_cumulative(doc, page_numbers, degrees) ==
    IF page_numbers = <<>> THEN doc
    ELSE LET pages == Document_get_pages(doc)
             p == Head(page_numbers)
             hit == p \in DOMAIN pages /\ pages[p] \in DOMAIN doc.objects
             d1 == [doc EXCEPT !.objects[pages[p]].rotate =
                        {(IF @ = {} THEN 0 ELSE TheOne(@)) + degrees}]
         IN  rotate_select_pages_cumulative(IF hit THEN d1 ELSE doc,
                                            Tail(page_numbers), degrees)

RECURSIVE rotate_select_pages(_, _, _)
rotate_select_pages(doc, page_numbers, degrees) ==
    IF page_numbers = <<>> THEN doc
    ELSE LET pages == Document_get_pages(doc)
             p == Head(page_numbers)
             hit == p \in DOMAIN pages /\ pages[p] \in DOMAIN doc.objects
             d1 == [doc EXCEPT !.objects[pages[p]].rotate = {degrees}]
         IN  rotate_select_pages(IF hit THEN d1 ELSE doc, Tail(page_numbers), degrees)

rotate_all_pages(doc, degrees) ==
    LET ids == Range(Document_get_pages(doc)) \cap DOMAIN doc.objects
    IN  [doc EXCEPT !.objects =
            [i \in DOMAIN doc.objects |->
                IF i \in ids THEN [doc.objects[i] EXCEPT !.rotate = {degrees}]
                ELSE doc.objects[i]]]

\* rotate_doc up to its save_pdf
rotate_pages(doc, degrees, pages, every) ==
    IF pages # {}
    THEN LET pn == TheOne(make_pages_page_numbers(TheOne(pages), doc, FALSE))
         IN  Outcome(pn, rotate_select_pages(doc, pn, degrees))
    ELSE IF every # {}
    THEN IF RemainderPanics(TheOne(every), doc)
         THEN PanickedWith(doc, "select", RemainderByZero)
         ELSE LET pn == make_every_page_numbers(TheOne(every), doc, FALSE)
              IN  Outcome(pn, rotate_select_pages(doc, pn, degrees))
    ELSE Outcome(<<>>, rotate_all_pages(doc, degrees))

----------------------------------------------------------------------------
(* utils.rs: reverse *)

\* mutant: only the root Pages object (the one without Parent) is reversed
reverse_kids_root_only(doc) ==
    [doc EXCEPT !.objects =
        [i \in DOMAIN doc.objects |->
            IF doc.objects[i].type = "Pages" /\ doc.objects[i].parent = {}
            THEN [doc.objects[i] EXCEPT !.kids = ReverseSeq(@)]
            ELSE doc.objects[i]]]

\* mutant: the Pages object is replaced by a dictionary that holds Kids only
reverse_kids_fresh_dict(doc) ==
    [doc EXCEPT !.objects =
        [i \in DOMAIN doc.objects |->
            IF doc.objects[i].type = "Pages"
            THEN [type |-> "", kids |-> ReverseSeq(doc.objects[i].kids),
                  parent |-> {}, count |-> {}, rotate |-> {}, pages |-> {}, tag |-> 0,
                  kidsobj |-> "Array"]
            ELSE doc.objects[i]]]

\* the loop of reverse_doc: every object typed Pages gets its Kids reversed
\* (a Pages object without Kids has nothing to reverse and is not replaced)
reverse_kids(doc) ==
    [doc EXCEPT !.objects =
        [i \in DOMAIN doc.objects |->
            IF doc.objects[i].type = "Pages"
            THEN [doc.objects[i] EXCEPT !.kids = ReverseSeq(@)]
            ELSE doc.objects[i]]]

\* the Pages objects on which ref_arr.as_array().unwrap() panics: Kids is
\* there and is not an array
UnwrapPanics(doc) ==
    {i \in DOMAIN doc.objects :
        doc.objects[i].type = "Pages" /\ doc.objects[i].kidsobj = "Null"}

\* reverse_doc up to its save_pdf: the loop runs in id order and stops at the
\* first Pages object whose Kids is not an array
reverse_pages(doc) ==
    IF UnwrapPanics(doc) = {}
    THEN Outcome(<<>>, reverse_kids(doc))
    ELSE LET stop == CHOOSE i \in UnwrapPanics(doc) : \A j \in UnwrapPanics(doc) : i <= j
             done == reverse_kids(doc)
         IN  PanickedWith([doc EXCEPT !.objects =
                              [i \in DOMAIN doc.objects |->
                                  IF i < stop THEN done.objects[i] ELSE doc.objects[i]]],
                          "reverse", UnwrapOnErr)

----------------------------------------------------------------------------
(* utils.rs: merge_documents *)

RECURSIVE CollectDocuments_overlap(_, _, _, _)
\* mutant: the next document starts at max_id instead of max_id + 1
CollectDocuments_overlap(documents, max_id, documents_pages, documents_objects) ==
    IF documents = <<>>
    THEN [pages |-> documents_pages, objects |-> documents_objects]
    ELSE LET doc == Document_renumber_objects_with(Head(documents), max_id)
             ids == Range(Document_get_pages(doc))
             pgs == [id \in ids |-> doc.objects[id]]
         IN  CollectDocuments_overlap(Tail(documents), doc.max_id,
                              pgs @@ documents_pages, doc.objects @@ documents_objects)

RECURSIVE CollectDocuments(_, _, _, _)
\* the first loop: renumber each document from max_id, collect its pages
\* (BTreeMap keyed by object id) and its objects
CollectDocuments(documents, max_id, documents_pages, documents_objects) ==
    IF documents = <<>>
    THEN [pages |-> documents_pages, objects |-> documents_objects]
    ELSE LET doc == Document_renumber_objects_with(Head(documents), max_id)
             ids == Range(Document_get_pages(doc))
             pgs == [id \in ids |-> doc.objects[id]]
         IN  CollectDocuments(Tail(documents), doc.max_id + 1,
                              pgs @@ documents_pages, doc.objects @@ documents_objects)

\* Dictionary::extend: every entry of other is set in dict
DictExtend(dict, other) ==
    [type   |-> other.type,
     kids   |-> IF other.kidsobj # "absent" THEN other.kids ELSE dict.kids,
     kidsobj |-> IF other.kidsobj # "absent" THEN other.kidsobj ELSE dict.kidsobj,
     parent |-> IF other.parent # {} THEN other.parent ELSE dict.parent,
     count  |-> IF other.count # {} THEN other.count ELSE dict.count,
     rotate |-> IF other.rotate # {} THEN other.rotate ELSE dict.rotate,
     pages  |-> IF other.pages # {} THEN other.pages ELSE dict.pages,
     tag    |-> other.tag]

RECURSIVE ScanObjects(_, _, _)
\* the second loop, over documents_objects in id order
ScanObjects(ids, documents_objects, st) ==
    IF ids = <<>> THEN st
    ELSE LET object_id == Head(ids)
             object == documents_objects[object_id]
             next ==
                CASE object.type = "Catalog" ->
                        [st EXCEPT !.catalog_object =
                            {[id |-> IF @ # {} THEN TheOne(@).id ELSE object_id,
                              obj |-> object]}]
                  [] object.type = "Pages" ->
                        [st EXCEPT !.pages_object =
                            {[id |-> IF @ # {} THEN TheOne(@).id ELSE object_id,
                              obj |-> IF @ # {} THEN DictExtend(object, TheOne(@).obj)
                                      ELSE object]}]
                  [] object.type \in {"Page", "Outlines", "Outline"} -> st
                  [] OTHER ->
                        [st EXCEPT !.objects = (object_id :> object) @@ @]
         IN  ScanObjects(Tail(ids), documents_objects, next)

\* mutant: without a Catalog among the inputs a fresh one is made the root
merge_documents_fresh_catalog(documents, outdoc) ==
    LET col == CollectDocuments(documents, 1, <<>>, <<>>)
        documents_pages == col.pages
        st == ScanObjects(SortedSeq(DOMAIN col.objects), col.objects,
                          [catalog_object |-> {}, pages_object |-> {},
                           objects |-> outdoc.objects])
    IN  IF st.pages_object = {}
        THEN [outdoc EXCEPT !.objects = st.objects]
        ELSE
        LET pages_object == TheOne(st.pages_object)
            with_pages ==
                [id \in DOMAIN documents_pages |->
                    [documents_pages[id] EXCEPT !.parent = {pages_object.id}]]
                @@ st.objects
            catalog_object == IF st.catalog_object = {}
                              THEN [id |-> 0, obj |-> Catalog({})]
                              ELSE TheOne(st.catalog_object)
            pages_dict == [pages_object.obj EXCEPT
                             !.count = {Cardinality(DOMAIN documents_pages)},
                             !.kids = SortedSeq(DOMAIN documents_pages),
                             !.kidsobj = "Array"]
            catalog_dict == [catalog_object.obj EXCEPT !.pages = {pages_object.id}]
            objects == (catalog_object.id :> catalog_dict)
                       @@ (pages_object.id :> pages_dict) @@ with_pages
            merged == [objects |-> objects,
                       root |-> {catalog_object.id},
                       max_id |-> Cardinality(DOMAIN objects)]
        IN  Document_renumber_objects_with(merged, 1)

merge_documents(documents, outdoc) ==
    LET col == CollectDocuments(documents, 1, <<>>, <<>>)
        documents_pages == col.pages
        st == ScanObjects(SortedSeq(DOMAIN col.objects), col.objects,
                          [catalog_object |-> {}, pages_object |-> {},
                           objects |-> outdoc.objects])
    IN  IF st.pages_object = {}
        THEN [outdoc EXCEPT !.objects = st.objects]
        ELSE
        LET pages_object == TheOne(st.pages_object)
            with_pages ==
                [id \in DOMAIN documents_pages |->
                    [documents_pages[id] EXCEPT !.parent = {pages_object.id}]]
                @@ st.objects
        IN  IF st.catalog_object = {}
            THEN [outdoc EXCEPT !.objects = with_pages]
            ELSE
            LET catalog_object == TheOne(st.catalog_object)
                pages_dict == [pages_object.obj EXCEPT
                                 !.count = {Cardinality(DOMAIN documents_pages)},
                                 !.kids = SortedSeq(DOMAIN documents_pages),
                                 !.kidsobj = "Array"]
                catalog_dict == [catalog_object.obj EXCEPT !.pages = {pages_object.id}]
                objects == (catalog_object.id :> catalog_dict)
                           @@ (pages_object.id :> pages_dict) @@ with_pages
                merged == [objects |-> objects,
                           root |-> {catalog_object.id},
                           max_id |-> Cardinality(DOMAIN objects)]
            IN  Document_renumber_objects_with(merged, 1)

----------------------------------------------------------------------------
(* utils.rs: save_pdf *)

\* the finalization of save_pdf, before its check
finalize(doc) == Document_prune_objects(doc)

\* Document::save fails when the directory of the path does not exist
CanWrite(filepath, files) == filepath \in DOMAIN files

\* mutant: the file is written without the check for pages
save_pdf_unchecked(doc, filepath, files) ==
    LET final == Document_prune_objects(doc)
    IN  IF ~CanWrite(filepath, files)
        THEN [status |-> "panic", final |-> final, disk |-> files,
              error |-> Failure("save", NoSuchFile)]
        ELSE [status |-> "saved", final |-> final,
              disk |-> [files EXCEPT ![filepath] = final], error |-> {}]

\* save_pdf: finalize, refuse a document without pages, write the file
save_pdf(doc, filepath, files) ==
    LET final == finalize(doc)
    IN  IF Len(Document_get_pages(final)) = 0
        THEN [status |-> "panic", final |-> final, disk |-> files,
              error |-> Failure("save_pdf", NoPagesLeft)]
        ELSE IF ~CanWrite(filepath, files)
        THEN [status |-> "panic", final |-> final, disk |-> files,
              error |-> Failure("save", NoSuchFile)]
        ELSE [status |-> "saved", final |-> final,
              disk |-> [files EXCEPT ![filepath] = final], error |-> {}]

----------------------------------------------------------------------------
(* The files the tool is run on *)

\* a Pages root without pages
DocZero ==
    [objects |-> (1 :> Catalog({2})) @@ (2 :> PagesNode(<<>>, {}, 0)),
     root |-> {1}, max_id |-> 2]

\* one page; the object ids have gaps
DocOne ==
    [objects |-> (1 :> Catalog({3})) @@ (3 :> PagesNode(<<7>>, {}, 1))
                 @@ (7 :> Page(3, {}, 11)),
     root |-> {1}, max_id |-> 7]

\* three pages under one Pages object, ids ascending in page order
DocFlat3 ==
    [objects |-> (1 :> Catalog({2})) @@ (2 :> PagesNode(<<3, 4, 5>>, {}, 3))
                 @@ (3 :> Page(2, {}, 11)) @@ (4 :> Page(2, {180}, 12))
                 @@ (5 :> Page(2, {90}, 13)),
     root |-> {1}, max_id |-> 5]

\* three pages whose object ids are not in page order (page 1 is object 5)
DocPerm ==
    [objects |-> (1 :> Catalog({2})) @@ (2 :> PagesNode(<<5, 3, 4>>, {}, 3))
                 @@ (3 :> Page(2, {}, 12)) @@ (4 :> Page(2, {90}, 13))
                 @@ (5 :> Page(2, {}, 11)),
     root |-> {1}, max_id |-> 5]

\* an interior Pages object
DocNested ==
    [objects |-> (1 :> Catalog({2})) @@ (2 :> PagesNode(<<3, 4>>, {}, 3))
                 @@ (3 :> Page(2, {}, 11)) @@ (4 :> PagesNode(<<5, 6>>, {2}, 2))
                 @@ (5 :> Page(4, {180}, 12)) @@ (6 :> Page(4, {}, 13)),
     root |-> {1}, max_id |-> 6]

\* four pages, Pages objects nested twice
DocDeep ==
    [objects |-> (1 :> Catalog({2})) @@ (2 :> PagesNode(<<3, 8>>, {}, 4))
                 @@ (3 :> PagesNode(<<4, 5>>, {2}, 3)) @@ (4 :> Page(3, {}, 11))
                 @@ (5 :> PagesNode(<<6, 7>>, {3}, 2)) @@ (6 :> Page(5, {}, 12))
                 @@ (7 :> Page(5, {90}, 13)) @@ (8 :> Page(2, {}, 14)),
     root |-> {1}, max_id |-> 8]

\* two pages, and two objects the trailer does not reach
DocOrphan ==
    [objects |-> (1 :> Catalog({2})) @@ (2 :> PagesNode(<<3, 4>>, {}, 2))
                 @@ (3 :> Page(2, {}, 11)) @@ (4 :> Page(2, {}, 12))
                 @@ (6 :> Page(2, {}, 19))
                 @@ (8 :> [Page(2, {}, 0) EXCEPT !.type = "Font", !.parent = {}]),
     root |-> {1}, max_id |-> 8]

DocFlat5 ==
    [objects |-> (1 :> Catalog({2})) @@ (2 :> PagesNode(<<3, 4, 5, 6, 7>>, {}, 5))
                 @@ (3 :> Page(2, {}, 11)) @@ (4 :> Page(2, {}, 12))
                 @@ (5 :> Page(2, {}, 13)) @@ (6 :> Page(2, {}, 14))
                 @@ (7 :> Page(2, {}, 15)),
     root |-> {1}, max_id |-> 7]

DocFlat6 ==
    [objects |-> (1 :> Catalog({2})) @@ (2 :> PagesNode(<<3, 4, 5, 6, 7, 8>>, {}, 6))
                 @@ (3 :> Page(2, {}, 11)) @@ (4 :> Page(2, {}, 12))
                 @@ (5 :> Page(2, {}, 13)) @@ (6 :> Page(2, {}, 14))
                 @@ (7 :> Page(2, {}, 15)) @@ (8 :> Page(2, {}, 16)),
     root |-> {1}, max_id |-> 8]

\* two pages and, between them, a Pages object without the key Kids
DocNoKids ==
    [objects |-> (1 :> Catalog({2})) @@ (2 :> PagesNode(<<3, 4, 5>>, {}, 2))
                 @@ (3 :> Page(2, {}, 11))
                 @@ (4 :> [PagesNode(<<>>, {2}, 0) EXCEPT !.kidsobj = "absent"])
                 @@ (5 :> Page(2, {}, 12)),
     root |-> {1}, max_id |-> 5]

\* the same, the Kids of the inner Pages object being null
DocBadKids ==
    [objects |-> (1 :> Catalog({2})) @@ (2 :> PagesNode(<<3, 4, 5>>, {}, 2))
                 @@ (3 :> Page(2, {}, 11))
                 @@ (4 :> [PagesNode(<<>>, {2}, 0) EXCEPT !.kidsobj = "Null"])
                 @@ (5 :> Page(2, {}, 12)),
     root |-> {1}, max_id |-> 5]

\* a Catalog with entries of its own, a Pages root with Rotate 90
DocLangA ==
    [objects |-> (1 :> [Catalog({2}) EXCEPT !.tag = 1])
                 @@ (2 :> [PagesNode(<<3, 4>>, {}, 2) EXCEPT !.rotate = {90}])
                 @@ (3 :> Page(2, {}, 11)) @@ (4 :> Page(2, {}, 12)),
     root |-> {1}, max_id |-> 4]

\* a Catalog with other entries, a Pages root with Rotate 180
DocLangB ==
    [objects |-> (1 :> [Catalog({2}) EXCEPT !.tag = 2])
                 @@ (2 :> [PagesNode(<<3>>, {}, 1) EXCEPT !.rotate = {180}])
                 @@ (3 :> Page(2, {}, 11)),
     root |-> {1}, max_id |-> 3]

\* a Catalog and nothing else
DocNoPages ==
    [objects |-> (1 :> Catalog({})), root |-> {1}, max_id |-> 1]

\* the root object has no Type: no object of the file is typed Catalog
DocNoCatalog ==
    [objects |-> (1 :> [Catalog({2}) EXCEPT !.type = ""])
                 @@ (2 :> PagesNode(<<3>>, {}, 1)) @@ (3 :> Page(2, {}, 11)),
     root |-> {1}, max_id |-> 3]

Library ==
    <<DocZero, DocOne, DocFlat3, DocPerm, DocNested, DocDeep, DocOrphan,
      DocFlat5, DocFlat6, DocNoKids, DocBadKids, DocLangA, DocLangB,
      DocNoPages, DocNoCatalog, NoFile, BadHeader>>

\* the same document with other page contents
Retag(doc) ==
    [doc EXCEPT !.objects =
        [i \in DOMAIN doc.objects |->
            IF doc.objects[i].type = "Page"
            THEN [doc.objects[i] EXCEPT !.tag = @ + 20]
            ELSE doc.objects[i]]]

Paths == {"a", "b", "out"}

----------------------------------------------------------------------------
(* The invocations *)

PageLists == SeqsUpTo(1..MaxPageNum, MaxListLen)

\* --pages and --every exclude each other (clap group); both may be absent;
\* --every is any u32
Selections ==
    {[pages |-> {l}, every |-> {}] : l \in PageLists}
    \cup {[pages |-> {}, every |-> {e}] : e \in 0..MaxEvery}
    \cup {[pages |-> {}, every |-> {}]}

\* an output path in a directory that does not exist
NoDir == "nodir/out"

NoRun ==
    [cmd |-> "none", pages |-> {}, every |-> {}, negate |-> FALSE, degrees |-> {},
     outfile |-> {}, infiles |-> <<>>, inputs |-> <<>>, page_numbers |-> <<>>,
     doc |-> NoFile, final |-> NoFile, status |-> "none", error |-> {}]

\* mutant: a file that cannot be read gives an empty document
load_pdf_lenient(filepath) ==
    LET file == disk[filepath]
    IN  IF file \in {NoFile, BadHeader}
        THEN [ok |-> TRUE, doc |-> EmptyDocument, error |-> {}]
        ELSE [ok |-> TRUE, doc |-> file, error |-> {}]

\* load_pdf (and Document::load(..).expect / .unwrap): the document, or the
\* panic with the error of Document::load
load_pdf(filepath) ==
    LET file == disk[filepath]
    IN  IF file = NoFile
        THEN [ok |-> FALSE, doc |-> NoFile, error |-> Failure("load", NoSuchFile)]
        ELSE IF file = BadHeader
        THEN [ok |-> FALSE, doc |-> NoFile, error |-> Failure("load", InvalidHeader)]
        ELSE [ok |-> TRUE, doc |-> file, error |-> {}]

RECURSIVE LoadAll(_)
\* the loop of merge: the files are loaded in order, the first failure panics
LoadAll(files) ==
    IF files = <<>> THEN [ok |-> TRUE, documents |-> <<>>, error |-> {}]
    ELSE LET l == load_pdf(Head(files))
             r == LoadAll(Tail(files))
         IN  IF ~l.ok THEN [ok |-> FALSE, documents |-> <<>>, error |-> l.error]
             ELSE IF ~r.ok THEN r
             ELSE [ok |-> TRUE, documents |-> <<l.doc>> \o r.documents, error |-> {}]

Init ==
    /\ \E i \in 1..Len(Library) :
          disk = [p \in Paths |->
                    IF p = "a" THEN Library[i]
                    ELSE IF p = "b" THEN Retag(Library[(i % Len(Library)) + 1])
                    ELSE NoFile]
    /\ run = NoRun

\* a handler whose load panicked: nothing was selected, changed or saved
Abort(cmd, sel, negate, degrees, outfile, infiles, inputs, error) ==
    /\ disk' = disk
    /\ run' = [cmd |-> cmd, pages |-> sel.pages, every |-> sel.every,
               negate |-> negate, degrees |-> degrees, outfile |-> outfile,
               infiles |-> infiles, inputs |-> inputs, page_numbers |-> <<>>,
               doc |-> NoFile, final |-> NoFile, status |-> "panic",
               error |-> error]

\* the end of a handler: the selection/mutation outcome o is saved to path,
\* unless the handler panicked before
Finish(cmd, sel, negate, degrees, outfile, infiles, inputs, o, path) ==
    LET r == IF o.panicked
             THEN [status |-> "panic", final |-> o.doc, disk |-> disk,
                   error |-> o.error]
             ELSE save_pdf(o.doc, path, disk)
    IN  /\ disk' = r.disk
        /\ run' = [cmd |-> cmd, pages |-> sel.pages, every |-> sel.every,
                   negate |-> negate, degrees |-> degrees, outfile |-> outfile,
                   infiles |-> infiles, inputs |-> inputs,
                   page_numbers |-> o.page_numbers,
                   doc |-> o.doc, final |-> r.final, status |-> r.status,
                   error |-> r.error]

\* utils::delete
Delete ==
    /\ run.cmd = "none"
    /\ \E sel \in Selections, negate \in BOOLEAN, outfile \in {{}, {"out"}, {NoDir}} :
          LET l == load_pdf("a")
          IN  IF ~l.ok
              THEN Abort("delete", sel, negate, {}, outfile, <<"a">>, <<disk["a"]>>,
                         l.error)
              ELSE \E o \in delete_pages(l.doc, sel.pages, sel.every, negate) :
                      Finish("delete", sel, negate, {}, outfile, <<"a">>, <<l.doc>>, o,
                             IF outfile = {} THEN "a" ELSE TheOne(outfile))

\* utils::extract
Extract ==
    /\ run.cmd = "none"
    /\ \E sel \in Selections, outfile \in {{"out"}, {NoDir}} :
          LET l == load_pdf("a")
          IN  IF ~l.ok
              THEN Abort("extract", sel, FALSE, {}, outfile, <<"a">>, <<disk["a"]>>,
                         l.error)
              ELSE \E o \in extract_pages(l.doc, sel.pages, sel.every) :
                      Finish("extract", sel, FALSE, {}, outfile, <<"a">>, <<l.doc>>, o,
                             TheOne(outfile))

\* utils::rotate and rotate_doc
Rotate ==
    /\ run.cmd = "none"
    /\ \E sel \in Selections, degrees \in Degrees, outfile \in {{}, {"out"}, {NoDir}} :
          LET l == load_pdf("a")
          IN  IF ~l.ok
              THEN Abort("rotate", sel, FALSE, {degrees}, outfile, <<"a">>,
                         <<disk["a"]>>, l.error)
              ELSE Finish("rotate", sel, FALSE, {degrees}, outfile, <<"a">>, <<l.doc>>,
                          rotate_pages(l.doc, degrees, sel.pages, sel.every),
                          IF outfile = {} THEN "a" ELSE TheOne(outfile))

\* utils::reverse and reverse_doc
Reverse ==
    /\ run.cmd = "none"
    /\ \E outfile \in {{}, {"out"}, {NoDir}} :
          LET l == load_pdf("a")
              none == [pages |-> {}, every |-> {}]
          IN  IF ~l.ok
              THEN Abort("reverse", none, FALSE, {}, outfile, <<"a">>, <<disk["a"]>>,
                         l.error)
              ELSE Finish("reverse", none, FALSE, {}, outfile, <<"a">>, <<l.doc>>,
                          reverse_pages(l.doc),
                          IF outfile = {} THEN "a" ELSE TheOne(outfile))

\* utils::merge
Merge ==
    /\ run.cmd = "none"
    /\ \E files \in SeqsUpTo({"a", "b"}, MaxMerge), outfile \in {{"out"}, {NoDir}} :
          LET l == LoadAll(files)
              none == [pages |-> {}, every |-> {}]
              given == [i \in 1..Len(files) |-> disk[files[i]]]
          IN  IF ~l.ok
              THEN Abort("merge", none, FALSE, {}, outfile, files, given, l.error)
              ELSE Finish("merge", none, FALSE, {}, outfile, files, l.documents,
                          Outcome(<<>>, merge_documents(l.documents, EmptyDocument)),
                          TheOne(outfile))

\* utils::dupe
Dupe ==
    /\ run.cmd = "none"
    /\ \E num \in 0..MaxDupe, outfile \in {{"out"}, {NoDir}} :
          LET l == load_pdf("a")
              none == [pages |-> {}, every |-> {}]
              documents == [i \in 1..num |-> l.doc]
          IN  IF ~l.ok
              THEN Abort("dupe", none, FALSE, {}, outfile, <<"a">>,
                         [i \in 1..num |-> disk["a"]], l.error)
              ELSE Finish("dupe", none, FALSE, {}, outfile, <<"a">>, documents,
                          Outcome(<<>>, merge_documents(documents, EmptyDocument)),
                          TheOne(outfile))

Next == Delete \/ Extract \/ Rotate \/ Reverse \/ Merge \/ Dupe

Spec == Init /\ [][Next]_vars

----------------------------------------------------------------------------
(* Vocabulary of the properties *)

\* the document the invocation loaded (the file it was given, when the load
\* failed)
Pre == run.inputs[1]

Loadable(file) == file \notin {NoFile, BadHeader}

\* the invocation got past its load
Loaded == run.cmd # "none" /\ \A e \in run.error : e.at # "load"

\* a document whose trailer leads to a Catalog and from there to a Pages root
HasCatalogAndPages(doc) ==
    /\ Loadable(doc)
    /\ doc.root # {} /\ TheOne(doc.root) \in DOMAIN doc.objects
    /\ LET cat == doc.objects[TheOne(doc.root)]
       IN  /\ cat.type = "Catalog"
           /\ cat.pages # {} /\ TheOne(cat.pages) \in DOMAIN doc.objects
           /\ doc.objects[TheOne(cat.pages)].type = "Pages"

Total(doc) == Len(Document_get_pages(doc))

\* the page objects, and their contents, in page-number order
PageObjects(doc) ==
    [i \in 1..Total(doc) |-> doc.objects[Document_get_pages(doc)[i]]]

PageTags(doc) == [i \in 1..Total(doc) |-> PageObjects(doc)[i].tag]

\* the elements of s at the positions in idx, in their order in s
SubSeqAt(s, idx) == [k \in 1..Cardinality(idx) |-> s[SortedSeq(idx)[k]]]

NoDuplicates(s) == Cardinality(Range(s)) = Len(s)

RECURSIVE ConcatAll(_)
ConcatAll(ss) == IF ss = <<>> THEN <<>> ELSE Head(ss) \o ConcatAll(Tail(ss))

RECURSIVE SumAll(_)
SumAll(ns) == IF ns = <<>> THEN 0 ELSE Head(ns) + SumAll(Tail(ns))

Multiples(e, total) == {p \in 1..total : p % e = 0}

\* the page numbers the invocation's selection names (all of them when
\* neither --pages nor --every is given)
Selected ==
    IF run.pages # {} THEN Range(TheOne(run.pages)) \cap (1..Total(Pre))
    ELSE IF run.every # {} THEN Multiples(TheOne(run.every), Total(Pre))
    ELSE 1..Total(Pre)

\* a selection is given, and its every-N rule, if any, has N >= 1
HasSelection == run.pages # {} \/ (run.every # {} /\ TheOne(run.every) >= 1)

\* the path the invocation saves to
Target == IF run.outfile = {} THEN "a" ELSE TheOne(run.outfile)

SavingCmds == {"delete", "extract", "rotate", "reverse", "merge", "dupe"}

----------------------------------------------------------------------------
(* C1: an operation whose document has no leaf page after finalization     *)
(* panics and writes nothing: no file is created or modified; every file    *)
(* that is written holds at least one page.                                 *)
C1_EmptyResultNeverWritten ==
    [][ /\ (run'.cmd \in SavingCmds /\ Total(run'.final) = 0)
            => (run'.status = "panic" /\ disk' = disk)
        /\ \A p \in Paths : disk'[p] # disk[p] => Total(disk'[p]) > 0 ]_vars

\* deleting every page of a document that has pages
C1_Witness ==
    /\ run.cmd = "delete" /\ run.pages # {} /\ ~run.negate
    /\ Total(Pre) > 0 /\ Total(run.doc) = 0
    /\ run.status = "panic"

(* C2: merging inputs (each with a Catalog and a Pages root) gives as many  *)
(* leaf pages as the inputs have together; the canonical Pages Count is     *)
(* that sum and the length of its Kids; the renumbered inputs share no      *)
(* object id, and no page is referenced twice.                              *)
C2_MergeCountsAndIds ==
    (/\ run.cmd \in {"merge", "dupe"} /\ Len(run.inputs) >= 1
     /\ \A i \in DOMAIN run.inputs : HasCatalogAndPages(run.inputs[i])) =>
        LET m == run.doc
            sum == SumAll([i \in 1..Len(run.inputs) |-> Total(run.inputs[i])])
            canon == m.objects[TheOne(m.objects[TheOne(m.root)].pages)]
            col == CollectDocuments(run.inputs, 1, <<>>, <<>>)
        IN  /\ Total(m) = sum
            /\ canon.type = "Pages"
            /\ canon.count = {sum}
            /\ Len(canon.kids) = sum
            /\ NoDuplicates(canon.kids)
            /\ Cardinality({i \in DOMAIN m.objects : m.objects[i].type = "Page"}) = sum
            /\ Cardinality(DOMAIN col.objects) =
                  SumAll([i \in 1..Len(run.inputs) |->
                             Cardinality(DOMAIN run.inputs[i].objects)])
            /\ Cardinality(DOMAIN col.pages) = sum

\* two different inputs, both with pages
C2_Witness ==
    /\ run.cmd = "merge" /\ Len(run.inputs) = 2
    /\ run.inputs[1] # run.inputs[2]
    /\ Total(run.inputs[1]) >= 2 /\ Total(run.inputs[2]) >= 2
    /\ Total(run.doc) = Total(run.inputs[1]) + Total(run.inputs[2])
    /\ run.status = "saved"

(* C3: after a merge (or a dupe) the pages are those of the inputs, in      *)
(* input order and, within each input, in that input's page order; the      *)
(* canonical Kids lists exactly them.                                       *)
C3_MergeKeepsPageOrder ==
    (/\ run.cmd \in {"merge", "dupe"} /\ Len(run.inputs) >= 1
     /\ \A i \in DOMAIN run.inputs : HasCatalogAndPages(run.inputs[i])) =>
        LET m == run.doc
            canon == m.objects[TheOne(m.objects[TheOne(m.root)].pages)]
        IN  /\ canon.kids = Document_get_pages(m)
            /\ PageTags(m) =
                  ConcatAll([i \in 1..Len(run.inputs) |-> PageTags(run.inputs[i])])

(* C4: for e >= 1 the every-N selection is the multiples of e in 1..total   *)
(* without negate and the non-multiples with negate; the two are disjoint,  *)
(* within 1..total, and together they are 1..total.                         *)
C4_EveryPartitions ==
    (/\ Loaded /\ run.cmd \in {"delete", "extract", "rotate"} /\ run.pages = {}
     /\ run.every # {} /\ TheOne(run.every) >= 1) =>
        LET e == TheOne(run.every)
            total == Total(Pre)
            plain == make_every_page_numbers(e, Pre, FALSE)
            negated == make_every_page_numbers(e, Pre, TRUE)
            used == IF run.cmd = "extract" THEN TRUE
                    ELSE IF run.cmd = "delete" THEN run.negate
                    ELSE FALSE
        IN  /\ Range(plain) = {p \in 1..total : p % e = 0}
            /\ Range(negated) = {p \in 1..total : p % e # 0}
            /\ Range(plain) \cap Range(negated) = {}
            /\ Range(plain) \cup Range(negated) = 1..total
            /\ NoDuplicates(plain) /\ NoDuplicates(negated)
            /\ run.page_numbers = (IF used THEN negated ELSE plain)

C4_Witness ==
    /\ run.cmd = "delete" /\ run.every = {2} /\ run.negate
    /\ Total(Pre) = 5
    /\ Range(run.page_numbers) = {1, 3, 5}

(* C5: with negate, an explicit page list selects exactly 1..total minus    *)
(* the listed numbers, whatever duplicates or out-of-range numbers the list *)
(* holds; each returned number is in 1..total and is returned once.         *)
C5_NegatedListIsComplement ==
    (/\ Loaded /\ run.pages # {}
     /\ (run.cmd = "extract" \/ (run.cmd = "delete" /\ run.negate))) =>
        LET total == Total(Pre)
            listed == Range(TheOne(run.pages))
        IN  /\ Range(run.page_numbers) = (1..total) \ listed
            /\ Range(run.page_numbers) \subseteq 1..total
            /\ NoDuplicates(run.page_numbers)
            /\ \A v \in make_pages_page_numbers(TheOne(run.pages), Pre, TRUE) :
                  Range(v) = (1..total) \ listed /\ NoDuplicates(v)

\* a list with a duplicate and an out-of-range number
C5_Witness ==
    /\ run.cmd = "delete" /\ run.negate
    /\ run.pages # {} /\ Len(TheOne(run.pages)) = 2
    /\ Total(Pre) = 3
    /\ TheOne(run.pages) \in {<<4, 2>>, <<2, 2>>}
    /\ Range(run.page_numbers) = {1, 3}

C7_DeleteRemovesTargets ==
    (Loaded /\ run.cmd = "delete" /\ ~run.negate /\ HasSelection) =>
        LET kept == (1..Total(Pre)) \ Selected
        IN  /\ Document_get_pages(run.doc) = SubSeqAt(Document_get_pages(Pre), kept)
            /\ PageObjects(run.doc) = SubSeqAt(PageObjects(Pre), kept)
            /\ DOMAIN run.doc.objects
                  = DOMAIN Pre.objects \ {Document_get_pages(Pre)[n] : n \in Selected}
            /\ Selected = {} => run.doc = Pre
            /\ (run.status = "saved") = (kept # {} /\ CanWrite(Target, disk))
            /\ run.status = "saved" =>
                  /\ disk[Target] = run.final
                  /\ PageObjects(disk[Target]) = SubSeqAt(PageObjects(Pre), kept)

\* a list naming a page that exists and one that does not
C7_Witness ==
    /\ run.cmd = "delete" /\ ~run.negate
    /\ run.pages = {<<4, 2>>}
    /\ Total(Pre) = 3
    /\ PageTags(run.doc) = <<PageTags(Pre)[1], PageTags(Pre)[3]>>
    /\ run.status = "saved"

(* C8: (for an invocation whose every-N rule, if any, has N >= 1)           *)
(* rotate sets Rotate to the given degrees on every selected page that      *)
(* exists (all pages without a selection), whatever Rotate it had; every    *)
(* other object is unchanged; numbers without a page are skipped; rotating  *)
(* again by the same degrees changes nothing.                               *)
C8_RotateOverwritesSelected ==
    (Loaded /\ run.cmd = "rotate" /\ run.every # {0}) =>
        LET d == TheOne(run.degrees)
            pages == Document_get_pages(Pre)
        IN  /\ Document_get_pages(run.doc) = pages
            /\ DOMAIN run.doc.objects = DOMAIN Pre.objects
            /\ \A n \in 1..Len(pages) :
                  run.doc.objects[pages[n]] =
                     IF n \in Selected THEN [Pre.objects[pages[n]] EXCEPT !.rotate = {d}]
                     ELSE Pre.objects[pages[n]]
            /\ \A i \in DOMAIN Pre.objects \ Range(pages) :
                  run.doc.objects[i] = Pre.objects[i]
            /\ run.doc.root = Pre.root
            /\ rotate_pages(run.doc, d, run.pages, run.every).doc = run.doc
            /\ (run.status = "saved") = (Total(Pre) > 0 /\ CanWrite(Target, disk))
            /\ run.status = "saved" => PageObjects(disk[Target]) = PageObjects(run.doc)

\* pages 2 and 4 of a 5-page document rotated by 90
C8_Witness ==
    /\ run.cmd = "rotate" /\ run.pages = {<<2, 4>>} /\ run.degrees = {90}
    /\ Total(Pre) = 5
    /\ [n \in 1..5 |-> IF PageObjects(disk[Target])[n].rotate = {} THEN 0
                       ELSE TheOne(PageObjects(disk[Target])[n].rotate)]
          = <<0, 90, 0, 90, 0>>

(* C9: reverse mirrors the page order whatever the nesting of the page      *)
(* tree: the page at position i is at position total + 1 - i afterwards;    *)
(* the pages and every Count are the same.                                  *)
C9_ReverseMirrorsPages ==
    (Loaded /\ run.cmd = "reverse") =>
        /\ Document_get_pages(run.doc) = ReverseSeq(Document_get_pages(Pre))
        /\ PageObjects(run.doc) = ReverseSeq(PageObjects(Pre))
        /\ DOMAIN run.doc.objects = DOMAIN Pre.objects
        /\ \A i \in DOMAIN Pre.objects : run.doc.objects[i].count = Pre.objects[i].count
        /\ Total(Pre) = 1 => Document_get_pages(run.doc) = Document_get_pages(Pre)
        /\ run.status = "saved" => PageTags(disk[Target]) = ReverseSeq(PageTags(Pre))

\* a page tree with Pages objects nested twice
C9_Witness ==
    /\ run.cmd = "reverse"
    /\ \E i, j \in DOMAIN Pre.objects :
          /\ Pre.objects[i].type = "Pages" /\ Pre.objects[j].type = "Pages"
          /\ Pre.objects[i].parent = {j} /\ Pre.objects[j].parent # {}
    /\ Total(Pre) = 4
    /\ PageTags(disk[Target]) = ReverseSeq(PageTags(Pre))
    /\ PageTags(disk[Target]) # PageTags(Pre)

(* C10: the reversal applied to its own result gives back the Kids of       *)
(* every Pages object, and the reversal changes no object that is not a     *)
(* Pages object.                                                            *)
C10_ReverseTwiceRestores ==
    (Loaded /\ run.cmd = "reverse") =>
        /\ reverse_kids(run.doc) = Pre
        /\ \A i \in DOMAIN Pre.objects :
              Pre.objects[i].type = "Pages" =>
                 reverse_kids(run.doc).objects[i].kids = Pre.objects[i].kids
        /\ \A i \in DOMAIN Pre.objects :
              Pre.objects[i].type # "Pages" => run.doc.objects[i] = Pre.objects[i]
        /\ run.doc.root = Pre.root

\* a Pages object with three kids, so that the first reversal changes it
C10_Witness ==
    /\ run.cmd = "reverse"
    /\ \E i \in DOMAIN Pre.objects :
          /\ Pre.objects[i].type = "Pages" /\ Len(Pre.objects[i].kids) = 3
          /\ run.doc.objects[i].kids # Pre.objects[i].kids
    /\ reverse_kids(run.doc) = Pre

(* C11: when a file the invocation is given cannot be loaded (it is missing *)
(* or its header is invalid) the invocation panics with the error of that   *)
(* load before anything is selected, changed or saved; when the output path *)
(* cannot be written the invocation ends in a panic carrying the error of   *)
(* the write, never as saved, and no file changes; an invocation that ends  *)
(* as saved has written its final document to the output path.              *)
C11_FatalIoAborts ==
    [][ LET given == [i \in DOMAIN run'.infiles |-> disk[run'.infiles[i]]]
            bad == {i \in DOMAIN given : ~Loadable(given[i])}
            first == CHOOSE i \in bad : \A j \in bad : i <= j
            target == IF run'.outfile = {} THEN "a" ELSE TheOne(run'.outfile)
        IN  /\ bad # {} =>
                 /\ run'.status = "panic"
                 /\ run'.error = Failure("load", IF given[first] = NoFile
                                                 THEN NoSuchFile ELSE InvalidHeader)
                 /\ run'.page_numbers = <<>>
                 /\ run'.doc = NoFile /\ run'.final = NoFile
                 /\ disk' = disk
            /\ (bad = {} /\ ~CanWrite(target, disk)) =>
                 /\ run'.status = "panic"
                 /\ disk' = disk
                 /\ (Total(run'.final) > 0
                       /\ \A e \in run'.error : e.at \notin {"select", "reverse"})
                      => run'.error = Failure("save", NoSuchFile)
            /\ run'.status = "saved" =>
                 /\ bad = {} /\ CanWrite(target, disk)
                 /\ disk'[target] = run'.final
                 /\ run'.error = {} ]_vars

\* delete on a file with an invalid header, as in the test invalid_pdf_file
C11_Witness ==
    /\ run.cmd = "delete" /\ run.pages # {}
    /\ run.inputs = <<BadHeader>>
    /\ run.status = "panic"
    /\ run.error = Failure("load", InvalidHeader)
    /\ disk["a"] = BadHeader /\ disk["out"] = NoFile

(* C12: a delete, extract or rotate given --every 0 is turned down before   *)
(* the every-N selection runs: the remainder page_num % every is never      *)
(* evaluated with every = 0, so the invocation does not panic on it.        *)
C12_EveryZeroNeverDivides ==
    (Loaded /\ run.cmd \in {"delete", "extract", "rotate"} /\ run.every = {0}) =>
        /\ ~RemainderPanics(TheOne(run.every), Pre)
        /\ run.error # Failure("select", RemainderByZero)

\* the Catalog merge_documents settles on: its loop over the renumbered
\* objects of the inputs
MergeScan(inputs) ==
    LET col == CollectDocuments(inputs, 1, <<>>, <<>>)
    IN  [objects |-> col.objects,
         st |-> ScanObjects(SortedSeq(DOMAIN col.objects), col.objects,
                            [catalog_object |-> {}, pages_object |-> {},
                             objects |-> <<>>])]

(* C13: in a merge (or dupe) of inputs that each have a Catalog and a Pages *)
(* root, the Catalog kept is the first one met, by its id and by its        *)
(* content: the root Catalog of the result has the entries of the first     *)
(* input's Catalog, apart from Pages, which points at the canonical Pages   *)
(* object, and the trailer Root references it.                              *)
C13_FirstCatalogKept ==
    (/\ Loaded /\ run.cmd \in {"merge", "dupe"} /\ Len(run.inputs) >= 1
     /\ \A i \in DOMAIN run.inputs : HasCatalogAndPages(run.inputs[i])) =>
        LET m == run.doc
            root == m.objects[TheOne(m.root)]
            first == run.inputs[1].objects[TheOne(run.inputs[1].root)]
            scan == MergeScan(run.inputs)
            cats == {i \in DOMAIN scan.objects : scan.objects[i].type = "Catalog"}
            first_id == CHOOSE i \in cats : \A j \in cats : i <= j
        IN  /\ root.type = "Catalog"
            /\ root.pages # {}
            /\ m.objects[TheOne(root.pages)].type = "Pages"
            /\ TheOne(scan.st.catalog_object).id = first_id
            /\ TheOne(scan.st.catalog_object).obj.tag = scan.objects[first_id].tag
            /\ root.tag = first.tag

\* the Pages root of a document that has one
PagesRoot(doc) == doc.objects[TheOne(doc.objects[TheOne(doc.root)].pages)]

(* C14: in a merge of inputs that each have a Catalog and a Pages root, the *)
(* canonical Pages object is the first Pages object met (by its id), and    *)
(* an attribute other than Kids and Count (here Rotate) that several of     *)
(* the inputs' Pages roots carry has, in the result, the value of the       *)
(* latest input that carries it.                                            *)
C14_LaterPagesAttributeWins ==
    (/\ Loaded /\ run.cmd \in {"merge", "dupe"} /\ Len(run.inputs) >= 1
     /\ \A i \in DOMAIN run.inputs : HasCatalogAndPages(run.inputs[i])) =>
        LET canon == PagesRoot(run.doc)
            scan == MergeScan(run.inputs)
            pgs == {i \in DOMAIN scan.objects : scan.objects[i].type = "Pages"}
            first_id == CHOOSE i \in pgs : \A j \in pgs : i <= j
            carry == {i \in DOMAIN run.inputs : PagesRoot(run.inputs[i]).rotate # {}}
            last == CHOOSE i \in carry : \A j \in carry : j <= i
        IN  /\ canon.type = "Pages"
            /\ TheOne(scan.st.pages_object).id = first_id
            /\ carry # {} => canon.rotate = PagesRoot(run.inputs[last]).rotate

(* C15: reverse on a document with a Pages object whose Kids is missing or  *)
(* is not an array leaves that object as it is and raises no error: the     *)
(* Kids of the other Pages objects are reversed, and the document is        *)
(* finalized and saved (when it has a page and the path can be written).    *)
C15_MalformedKidsTolerated ==
    LET malformed == {i \in DOMAIN Pre.objects :
                        Pre.objects[i].type = "Pages" /\ Pre.objects[i].kidsobj # "Array"}
    IN  (Loaded /\ run.cmd = "reverse" /\ malformed # {}) =>
            /\ \A i \in malformed : run.doc.objects[i] = Pre.objects[i]
            /\ \A i \in DOMAIN Pre.objects \ malformed :
                  Pre.objects[i].type = "Pages" =>
                     run.doc.objects[i].kids = ReverseSeq(Pre.objects[i].kids)
            /\ \A e \in run.error : e.at # "reverse"
            /\ (Total(Pre) > 0 /\ CanWrite(Target, disk)) =>
                  /\ run.status = "saved"
                  /\ PageTags(disk[Target]) = ReverseSeq(PageTags(Pre))

\* what merge_documents prints before it returns early
merge_report(documents) ==
    LET st == MergeScan(documents).st
    IN  IF st.pages_object = {} THEN {"Pages root not found."}
        ELSE IF st.catalog_object = {} THEN {"Catalog root not found."}
        ELSE {}

\* no object typed Catalog, or none typed Pages, in the documents
NoCatalogOrNoPages(documents) ==
    LET types == UNION {{documents[k].objects[i].type : i \in DOMAIN documents[k].objects} :
                           k \in DOMAIN documents}
    IN  "Catalog" \notin types \/ "Pages" \notin types

(* C16: when the documents a merge or a dupe works on hold no Catalog, or   *)
(* no Pages object (an empty sequence of documents included), the merge     *)
(* prints which one is missing, the resulting document has no trailer Root  *)
(* and no page, and the invocation panics in save_pdf without writing.      *)
C16_MissingRootsNothingSaved ==
    (Loaded /\ run.cmd \in {"merge", "dupe"} /\ NoCatalogOrNoPages(run.inputs)) =>
        /\ merge_report(run.inputs) # {}
        /\ run.doc.root = {}
        /\ Total(run.doc) = 0 /\ Total(run.final) = 0
        /\ run.status = "panic"
        /\ run.error = Failure("save_pdf", NoPagesLeft)
        /\ disk["out"] = NoFile
        /\ \A k \in DOMAIN run.infiles : Loadable(disk[run.infiles[k]])

\* a merge of one file that has a Pages root with a page, and no Catalog
C16_Witness ==
    /\ run.cmd = "merge" /\ Len(run.inputs) = 1
    /\ Total(run.inputs[1]) > 0
    /\ merge_report(run.inputs) = {"Catalog root not found."}
    /\ run.status = "panic"
    /\ disk["out"] = NoFile

====
